---- MODULE Spec2Model ----
(***************************************************************************)
(* Medha: the retrieval-augmented chatbot pipeline.                        *)
(*                                                                         *)
(* The model covers the conversation state object (ChatbotState), the      *)
(* three node functions (QueryReformulatorNode.process,                    *)
(* FaissRetrieverNode.process, ChatbotNode.process), the graph wiring of   *)
(* ChatbotGraph.build_graph with its per-thread MemorySaver checkpoints,   *)
(* and the two callers of the compiled graph (the /chat endpoint and the   *)
(* CLI / Streamlit loop).                                                  *)
(*                                                                         *)
(* Text is a sequence of tokens.  An Optional value is a set: {} is None   *)
(* and {v} is the value v.                                                 *)
(***************************************************************************)
EXTENDS Naturals, Integers, Sequences, FiniteSets, TLC

(* ------------------------------ bounds --------------------------------- *)
\* longest raw model response, in tokens
MaxRawLen == 2
\* number of invocations that can be in flight at once
NumInv == 2
\* number of passages in the corpus behind the index
CorpusSize == 2

(* ------------------------------- text ---------------------------------- *)
Open == "<think>"
Close == "</think>"
Space == " "
Sep == "\n\n"
Alphabet == {Open, Close, Space, "w"}

RawTexts == UNION {[1..n -> Alphabet] : n \in 0..MaxRawLen}

None == {}
Some(v) == {v}
Val(o) == CHOOSE v \in o : TRUE

\* a presence test that accepts the empty value
TruthyNotNone(o) == o # None

\* Python truthiness of an Optional[str] / Optional[list]: None and the empty
\* value are both falsy.
Truthy(o) == o # None /\ Val(o) # << >>

\* index of the first Close token of s at or after position i, 0 when none
RECURSIVE FirstClose(_, _)
FirstClose(s, i) ==
    IF i > Len(s) THEN 0
    ELSE IF s[i] = Close THEN i
    ELSE FirstClose(s, i + 1)

\* re.sub(r"<think>.*?</think>", "", s, flags=re.DOTALL): every leftmost
\* shortest Open ... Close span is removed, scanning left to right.
RECURSIVE ReSubThink(_)
ReSubThink(s) ==
    IF s = << >> THEN << >>
    ELSE IF Head(s) = Open /\ FirstClose(s, 2) # 0
         THEN ReSubThink(SubSeq(s, FirstClose(s, 2) + 1, Len(s)))
         ELSE <<Head(s)>> \o ReSubThink(Tail(s))

RECURSIVE LStrip(_)
LStrip(s) ==
    IF s # << >> /\ Head(s) = Space THEN LStrip(Tail(s)) ELSE s

RECURSIVE RStrip(_)
RStrip(s) ==
    IF s # << >> /\ s[Len(s)] = Space THEN RStrip(SubSeq(s, 1, Len(s) - 1)) ELSE s

\* str.strip()
Strip(s) == RStrip(LStrip(s))

\* re.sub(...).strip(), as both LLM nodes apply it to response.content
CleanThink(raw) == Strip(ReSubThink(raw))

(* --------------------------- ChatbotState ------------------------------ *)
\* the fields the pydantic model declares
Fields == {"question", "context", "answer", "source_docs", "metadata"}

EmptyDict == "{}"
OtherDict == "{model: qwen}"

\* Field defaults: the Optional fields default to None, metadata to a fresh
\* empty dict (default_factory).  question is required and has no default.
FieldDefault(f) == IF f = "metadata" THEN Some(EmptyDict) ELSE None

\* ChatbotState(**kw): Config.extra = "ignore" drops every keyword that is not
\* a declared field; fields_set is pydantic's record of the fields the caller
\* passed.  kw always carries question (the required field).
ChatbotState(kw) ==
    [question    |-> kw["question"],
     context     |-> IF "context" \in DOMAIN kw THEN kw["context"] ELSE FieldDefault("context"),
     answer      |-> IF "answer" \in DOMAIN kw THEN kw["answer"] ELSE FieldDefault("answer"),
     source_docs |-> IF "source_docs" \in DOMAIN kw THEN kw["source_docs"] ELSE FieldDefault("source_docs"),
     metadata    |-> IF "metadata" \in DOMAIN kw THEN kw["metadata"] ELSE FieldDefault("metadata"),
     fields_set  |-> DOMAIN kw \cap Fields]

\* the data attributes an instance has: its declared fields, nothing else
Attrs(state) == DOMAIN state \ {"fields_set"}

\* hasattr(state, name) / whether state.name evaluates instead of raising
\* AttributeError
HasAttr(state, name) == name \in Attrs(state)

\* state.question = text, under validate_assignment
SetQuestion(state, text) ==
    [state EXCEPT !.question = text, !.fields_set = @ \cup {"question"}]

(* ---------------------------- collaborators ---------------------------- *)
\* k of FaissRetrieverNode, fixed by build_graph
K == 5

\* a retrieved document: only its page_content is read by the pipeline
Passage(n) == [page_content |-> [i \in 1..n |-> "w"]]
Corpus == {Passage(n) : n \in 1..CorpusSize}

Min(a, b) == IF a < b THEN a ELSE b

\* what vectorstore.similarity_search(question, k) can return: a ranking,
\* without repetition, of at most k passages of the corpus
Rankings ==
    {r \in UNION {[1..n -> Corpus] : n \in 0..Min(K, CorpusSize)} :
        \A i, j \in DOMAIN r : i # j => r[i] # r[j]}

\* outcome of one similarity_search call: it raises, or returns a ranking
SearchOutcomes ==
    {[ok |-> FALSE, docs |-> << >>]} \cup {[ok |-> TRUE, docs |-> r] : r \in Rankings}

\* The gateway replies met inside an invocation of the compiled graph: an
\* empty reply, a plain one, one with a reasoning trace, one with an unclosed
\* reasoning trace.
PipelineReplies == {<< >>, <<"w">>, <<Open, "w", Close, "w">>, <<Open, "w">>}

\* outcome of one llm.invoke call: it raises, or returns response.content
LLMOutcomes ==
    {[ok |-> FALSE, content |-> << >>]}
        \cup {[ok |-> TRUE, content |-> r] : r \in RawTexts \cup PipelineReplies}

\* what a node meets in its environment during one run: the gateway's
\* response, the index's response, and whether the system prompt file is found
Envs == [llm : LLMOutcomes, search : SearchOutcomes, prompt_found : BOOLEAN]

\* A node consults only its own collaborators: the reformulator the gateway,
\* the retriever the index, the generator the prompt file and the gateway.
\* The parts a node never consults are held at one value.
NodeEnvs(node) ==
    {e \in Envs :
        /\ (node = "retriever" => e.llm = [ok |-> FALSE, content |-> << >>])
        /\ (node # "retriever" => e.search = [ok |-> FALSE, docs |-> << >>])
        /\ (node # "chatbot" => e.prompt_found)}

PipelineEnvs(node) ==
    {e \in [llm : {[ok |-> FALSE, content |-> << >>]}
                    \cup {[ok |-> TRUE, content |-> r] : r \in PipelineReplies},
            search : SearchOutcomes, prompt_found : BOOLEAN] :
        /\ (node = "retriever" => e.llm = [ok |-> FALSE, content |-> << >>])
        /\ (node # "retriever" => e.search = [ok |-> FALSE, docs |-> << >>])
        /\ (node # "chatbot" => e.prompt_found)}

\* "\n\n".join(texts)
RECURSIVE Join(_)
Join(texts) ==
    IF texts = << >> THEN << >>
    ELSE IF Len(texts) = 1 THEN texts[1]
    ELSE texts[1] \o <<Sep>> \o Join(Tail(texts))

PageContents(docs) == [i \in DOMAIN docs |-> docs[i].page_content]

HumanMessage(text) == [role |-> "user", content |-> text]
AIMessage(text) == [role |-> "assistant", content |-> text]

(* ------------------------------- nodes --------------------------------- *)
\* A run of process(state) either returns a state or raises.  llm_calls and
\* search_calls count the collaborator calls the run made; prompt_context is
\* the context the generator put in the system prompt (None when no prompt
\* was built).
Return(state, llm_calls, search_calls, prompt_context) ==
    [status |-> "ok", out |-> Some(state), llm_calls |-> llm_calls,
     search_calls |-> search_calls, prompt_context |-> prompt_context]

Raise(kind, llm_calls, search_calls) ==
    [status |-> kind, out |-> None, llm_calls |-> llm_calls,
     search_calls |-> search_calls, prompt_context |-> None]

\* a question test that lets every question through
QuestionMissingNever(state) == FALSE

\* "not state.question": the question is the empty string
QuestionMissing(state) == state.question = << >>

\* QueryReformulatorNode.process
ReformulatorProcess(state, env) ==
    IF ~HasAttr(state, "messages")
    THEN Raise("AttributeError", 0, 0)                       \* line 12
    ELSE IF ~env.llm.ok
    THEN Raise("UpstreamError", 1, 0)                        \* line 22
    ELSE Return(ChatbotState(
                    [k \in {"question", "context", "messages", "source_docs"} |->
                        CASE k = "question" -> CleanThink(env.llm.content)
                          [] k = "context" -> state["context"]
                          [] k = "messages" -> state["messages"]
                          [] k = "source_docs" ->
                                IF HasAttr(state, "source_docs")
                                THEN state["source_docs"] ELSE None]),
                1, 0, None)

\* a retriever that goes on after a failed search
SearchRaisedIgnored(env) == FALSE

\* similarity_search raised: nothing in process catches it
SearchRaised(env) == ~env.search.ok

\* FaissRetrieverNode.process
RetrieverProcess(state, env) ==
    IF QuestionMissing(state)
    THEN Raise("ValueError", 0, 0)                           \* lines 66-67
    ELSE IF SearchRaised(env)
    THEN Raise("UpstreamError", 0, 1)                        \* line 70
    ELSE IF ~HasAttr(state, "messages")
    THEN Raise("AttributeError", 0, 1)                       \* line 74
    ELSE Return(ChatbotState(
                    [k \in {"context", "source_docs", "question", "messages"} |->
                        CASE k = "context" -> Some(Join(PageContents(env.search.docs)))
                          [] k = "source_docs" -> Some(env.search.docs)
                          [] k = "question" -> state.question
                          [] k = "messages" -> state["messages"]]),
                0, 1, None)

\* enhanced_context of ChatbotNode.process, lines 21-23
EnhancedContext(state) ==
    IF Truthy(state.answer)
    THEN Val(state.context) \o <<Sep, "Previous answer:">> \o Val(state.answer)
    ELSE Val(state.context)

\* ChatbotNode.process
ChatbotProcess(state, env) ==
    IF QuestionMissing(state)
    THEN Raise("ValueError", 0, 0)                           \* lines 15-16
    ELSE IF ~Truthy(state.context)
    THEN Raise("ValueError", 0, 0)                           \* lines 17-18
    ELSE IF ~env.prompt_found
    THEN Raise("FileNotFoundError", 0, 0)                    \* line 26
    ELSE IF ~HasAttr(state, "messages")
    THEN Raise("AttributeError", 0, 0)                       \* line 30
    ELSE IF ~env.llm.ok
    THEN Raise("UpstreamError", 1, 0)                        \* line 52
    ELSE LET clean_answer == CleanThink(env.llm.content)
             new_messages == state["messages"] \o
                             <<HumanMessage(state.question), AIMessage(clean_answer)>>
         IN Return(ChatbotState(
                    [k \in {"question", "context", "answer", "source_docs", "messages"} |->
                        CASE k = "question" -> state.question
                          [] k = "context" -> state.context
                          [] k = "answer" -> Some(clean_answer)
                          [] k = "source_docs" -> state.source_docs
                          [] k = "messages" -> new_messages]),
                   1, 0, Some(EnhancedContext(state)))

(* ------------------------------- graph --------------------------------- *)
END == "__end__"
Nodes == {"reformulator", "retriever", "chatbot"}

\* set_entry_point
EntryPoint == "reformulator"

\* add_edge
Edge(node) ==
    CASE node = "reformulator" -> "retriever"
      [] node = "retriever" -> "chatbot"
      [] node = "chatbot" -> END

\* add_node: the function registered under each node name
NodeProcess(node, state, env) ==
    CASE node = "reformulator" -> ReformulatorProcess(state, env)
      [] node = "retriever" -> RetrieverProcess(state, env)
      [] node = "chatbot" -> ChatbotProcess(state, env)

(* ----------------------- langgraph state channels ---------------------- *)
\* The compiled graph keeps one last-value channel per declared field.  A
\* channel map is a function from the fields written so far to their values.
NoChannels == [f \in {} |-> None]

\* The writes a returned (or submitted) ChatbotState contributes: the fields
\* the constructor was given, and the fields that differ from their default.
\* metadata has a default_factory and no static default, so it always counts.
UpdateOf(state) ==
    [f \in {g \in Fields : g \in state.fields_set \/ g = "metadata"
                            \/ state[g] # FieldDefault(g)} |-> state[f]]

ApplyWrites(channels, update) ==
    [f \in DOMAIN channels \cup DOMAIN update |->
        IF f \in DOMAIN update THEN update[f] ELSE channels[f]]

\* the state object a node is called with: ChatbotState(**channel values)
NodeInput(channels) == ChatbotState(channels)

(* ------------------------------ callers -------------------------------- *)
Questions == {<< >>, <<"w">>}
CallerThreads == {"t1"}
FreshIds == {"u1"}
SessionThread == "s1"
ThreadIds == CallerThreads \cup FreshIds \cup {SessionThread}

\* thread_id of a request body: absent, empty, or a caller-chosen identifier
RequestThreadIds == {None, Some("")} \cup {Some(t) : t \in CallerThreads}

\* messages of a request body
RequestMessages == {<< >>, <<HumanMessage(<<"w">>)>>}

Slots == 1..NumInv

\* a store with a single entry, whatever the thread_id
CheckpointKeyShared(thread_id) == "t1"

\* the checkpointer entry a thread_id selects (MemorySaver is keyed by it)
CheckpointKey(thread_id) == thread_id

NoResp == [code |-> 0, body |-> None]

IdleInv ==
    [pc |-> "idle", phase |-> "ready", caller |-> "none", thread |-> None,
     fresh |-> FALSE, asked |-> << >>, channels |-> NoChannels, started |-> << >>, err |-> "none",
     resp |-> NoResp]

\* ChatbotState(question="", context="", messages=[]) of the CLI and the UI
SessionInitialState ==
    ChatbotState([k \in {"question", "context", "messages"} |->
                    CASE k = "question" -> << >>
                      [] k = "context" -> Some(<< >>)
                      [] k = "messages" -> << >>])

(* ------------------------------ scraper -------------------------------- *)
\* retry count of the scraper
MAX_RETRIES == 2

\* what one requests.get(url, ...) can do: return a response with a status
\* code, or raise
StatusCodes == {200, 204, 301, 403, 404, 500, 503}
RequestErrors == {"Timeout", "ConnectionError"}
RequestOutcomes ==
    {[kind |-> "response", status |-> c, error |-> "none"] : c \in StatusCodes}
        \cup {[kind |-> "raised", status |-> 0, error |-> e] : e \in RequestErrors}

\* a status test that takes no status for a permanent failure
PermanentFailureNever(status) == FALSE

\* resp.status_code in (403, 404)
PermanentFailure(status) == status \in {403, 404}

\* 200 <= resp.status_code < 300
Success(status) == 200 <= status /\ status < 300

\* Exception(f"HTTP {resp.status_code}")
HttpError(status) == [kind |-> "HTTP", status |-> status, error |-> "none"]

\* fetch(url) before it is called: no attempt made, nothing returned or raised
FetchIdle ==
    [pc |-> "idle", attempt |-> 0, last_err |-> None, attempts |-> << >>,
     returned |-> None, raised |-> None]

VARIABLES
    ckpt,        \* checkpoint store: thread id -> channel map
    inv,         \* the requests being served, one per worker slot
    issued,      \* thread identifiers generated so far
    chat_state,  \* the session's ChatbotState object (CLI / UI)
    call,        \* the last direct call of a node's process()
    fetch        \* the scraper's fetch(url) call in progress

vars == <<ckpt, inv, issued, chat_state, call, fetch>>

NoCall == [node |-> "none", messages |-> << >>, input |-> None, env |-> None, result |-> None]
Init ==
    /\ ckpt = [t \in ThreadIds |-> NoChannels]
    /\ inv = [i \in Slots |-> IdleInv]
    /\ issued = {}
    /\ chat_state = SessionInitialState
    /\ call = NoCall
    /\ fetch = FetchIdle

\* compiled_graph.invoke(state, config) up to the first node: the thread's
\* checkpoint is loaded, the submitted state's writes are applied, the input
\* checkpoint is saved and the entry node is scheduled.
BeginInvoke(i, caller, thread_id, state) ==
    LET loaded == ckpt[CheckpointKey(thread_id)]
        channels == ApplyWrites(loaded, UpdateOf(state))
    IN /\ inv' = [inv EXCEPT ![i] =
                    [pc |-> EntryPoint, phase |-> "ready", caller |-> caller,
                     thread |-> Some(thread_id), fresh |-> (loaded = NoChannels),
                     asked |-> state.question,
                     channels |-> channels, started |-> << >>, err |-> "none",
                     resp |-> NoResp]]
       /\ ckpt' = [ckpt EXCEPT ![CheckpointKey(thread_id)] = channels]

\* a request is served by the first free worker
FreeSlot(i) ==
    /\ inv[i].pc = "idle"
    /\ \A j \in Slots : j < i => inv[j].pc # "idle"

\* POST /chat without a question: lines 17-18
ApiBadRequest(i) ==
    /\ FreeSlot(i)
    /\ inv' = [inv EXCEPT ![i].pc = "done", ![i].caller = "api",
                          ![i].resp = [code |-> 400,
                                       body |-> Some([error |-> "Missing 'question'"])]]
    /\ UNCHANGED <<ckpt, issued, chat_state, call, fetch>>

\* POST /chat, lines 20-29: thread_id reused or generated, state built, graph
\* invoked
ApiChat(i) ==
    /\ FreeSlot(i)
    /\ \E question \in Questions, tid \in RequestThreadIds, messages \in RequestMessages :
        LET state == ChatbotState([k \in {"question", "messages"} |->
                                    IF k = "question" THEN question ELSE messages])
        IN IF tid # None /\ Val(tid) # ""
           THEN /\ BeginInvoke(i, "api", Val(tid), state)
                /\ UNCHANGED issued
           ELSE \E u \in FreshIds \ issued :
                /\ BeginInvoke(i, "api", u, state)
                /\ issued' = issued \cup {u}
    /\ UNCHANGED <<chat_state, call, fetch>>

\* one turn of the CLI loop / the UI handler: the session's state object gets
\* the new question and is submitted on the session's thread
SessionChat(i) ==
    /\ FreeSlot(i)
    /\ \A j \in Slots : inv[j].caller # "session"
    /\ \E question \in Questions :
        /\ chat_state' = SetQuestion(chat_state, question)
        /\ BeginInvoke(i, "session", SessionThread, chat_state')
    /\ UNCHANGED <<issued, call, fetch>>

\* the graph runner starts the scheduled node
StartNode(i) ==
    /\ inv[i].pc \in Nodes
    /\ inv[i].phase = "ready"
    /\ inv' = [inv EXCEPT ![i].phase = "running",
                          ![i].started = Append(@, inv[i].pc)]
    /\ UNCHANGED <<ckpt, issued, chat_state, call, fetch>>

\* the running node returns or raises.  A returned state is written to the
\* channels, checkpointed, and the node's outgoing edge is followed; an
\* exception ends the invocation.
FinishNode(i) ==
    /\ inv[i].pc \in Nodes
    /\ inv[i].phase = "running"
    /\ \E env \in PipelineEnvs(inv[i].pc) :
        LET r == NodeProcess(inv[i].pc, NodeInput(inv[i].channels), env)
            channels == ApplyWrites(inv[i].channels, UpdateOf(Val(r.out)))
        IN IF r.status = "ok"
           THEN /\ inv' = [inv EXCEPT ![i].pc = Edge(inv[i].pc), ![i].phase = "ready",
                                      ![i].channels = channels]
                /\ ckpt' = [ckpt EXCEPT ![CheckpointKey(Val(inv[i].thread))] = channels]
           ELSE /\ inv' = [inv EXCEPT ![i].pc = "error", ![i].phase = "ready",
                                      ![i].err = r.status]
                /\ UNCHANGED ckpt
    /\ UNCHANGED <<issued, chat_state, call, fetch>>

\* what the /chat handler sends back: lines 30-52 after a completed run
\* (result.messages is read at line 48), line 55 after an exception
ApiResponse(v) ==
    IF v.pc = "error"
    THEN [code |-> 500, body |-> Some([error |-> v.err])]
    ELSE LET result == ChatbotState(v.channels)
         IN IF ~HasAttr(result, "messages")
            THEN [code |-> 500, body |-> Some([error |-> "AttributeError"])]
            ELSE [code |-> 200,
                  body |-> Some([thread_id |-> Val(v.thread), question |-> result.question,
                                 answer |-> result.answer, context |-> result.context,
                                 source_docs |-> result.source_docs,
                                 messages |-> result["messages"]])]

\* what the session caller shows: the answer, or the backend error
SessionResponse(v) ==
    IF v.pc = "error"
    THEN [code |-> 500, body |-> Some([error |-> v.err])]
    ELSE [code |-> 200, body |-> Some([answer |-> ChatbotState(v.channels).answer])]

\* invoke has returned or raised: the caller builds its response
Respond(i) ==
    /\ inv[i].pc \in {END, "error"}
    /\ inv' = [inv EXCEPT ![i] =
                    [IdleInv EXCEPT !.pc = "done", !.caller = inv[i].caller,
                                    !.resp = IF inv[i].caller = "api"
                                             THEN ApiResponse(inv[i])
                                             ELSE SessionResponse(inv[i])]]
    /\ chat_state' = IF inv[i].caller = "session" /\ inv[i].pc = END
                     THEN ChatbotState(inv[i].channels) ELSE chat_state
    /\ UNCHANGED <<ckpt, issued, call, fetch>>

\* the caller has its response and the worker is free again
Release(i) ==
    /\ inv[i].pc = "done"
    /\ inv' = [inv EXCEPT ![i] = IdleInv]
    /\ UNCHANGED <<ckpt, issued, chat_state, call, fetch>>

Next ==
    \E i \in Slots :
        \/ ApiBadRequest(i)
        \/ ApiChat(i)
        \/ SessionChat(i)
        \/ StartNode(i)
        \/ FinishNode(i)
        \/ Respond(i)
        \/ Release(i)

Spec == Init /\ [][Next]_vars

(* ------------------- direct calls of a node's process() ---------------- *)
OptionalTexts == {None, Some(<< >>), Some(<<"w">>)}
OptionalAnswers == {None, Some(<<"w">>)}
OptionalDocs == {None, Some(<<Passage(1)>>)}
Metadatas == {Some(EmptyDict), Some(OtherDict)}

\* ChatbotState(question=.., context=.., answer=.., source_docs=..,
\* metadata=.., messages=..): the state objects a caller can hand to a node
StateOf(question, context, answer, source_docs, metadata, messages) ==
    ChatbotState([k \in Fields \cup {"messages"} |->
                    CASE k = "question" -> question
                      [] k = "context" -> context
                      [] k = "answer" -> answer
                      [] k = "source_docs" -> source_docs
                      [] k = "metadata" -> metadata
                      [] k = "messages" -> messages])

\* the state objects a caller can hand to a node, each with the messages it
\* was constructed with
DirectInputs ==
    {[messages |-> messages,
      state |-> StateOf(question, context, answer, source_docs, metadata, messages)] :
        question \in Questions, context \in OptionalTexts, answer \in OptionalAnswers,
        source_docs \in OptionalDocs, metadata \in Metadatas, messages \in RequestMessages}

\* the record of node.process(state) called in the environment env
CallRecord(node, in, env) ==
    [node |-> node, messages |-> in.messages, input |-> Some(in.state),
     env |-> Some(env), result |-> Some(NodeProcess(node, in.state, env))]

\* reformulator.process(state), called directly
CallReformulator ==
    /\ call = NoCall
    /\ \E in \in DirectInputs, env \in NodeEnvs("reformulator") :
        call' = CallRecord("reformulator", in, env)
    /\ UNCHANGED <<ckpt, inv, issued, chat_state, fetch>>

\* retriever.process(state), called directly
CallRetriever ==
    /\ call = NoCall
    /\ \E in \in DirectInputs, env \in NodeEnvs("retriever") :
        call' = CallRecord("retriever", in, env)
    /\ UNCHANGED <<ckpt, inv, issued, chat_state, fetch>>

\* chatbot.process(state), called directly
CallChatbot ==
    /\ call = NoCall
    /\ \E in \in DirectInputs, env \in NodeEnvs("chatbot") :
        call' = CallRecord("chatbot", in, env)
    /\ UNCHANGED <<ckpt, inv, issued, chat_state, fetch>>

\* the caller drops the outcome and is ready for the next call
CallDone ==
    /\ call # NoCall
    /\ call' = NoCall
    /\ UNCHANGED <<ckpt, inv, issued, chat_state, fetch>>

NodeNext == CallReformulator \/ CallRetriever \/ CallChatbot \/ CallDone

NodeSpec == Init /\ [][NodeNext]_vars

(* --------------------------- scraper's fetch --------------------------- *)
\* fetch(url) is called: lines 61-64, the loop starts with attempt 1
FetchCall ==
    /\ fetch.pc = "idle"
    /\ fetch' = [FetchIdle EXCEPT !.pc = "request", !.attempt = 1]
    /\ UNCHANGED <<ckpt, inv, issued, chat_state, call>>

\* one pass through the try block, lines 65-75
FetchRequest ==
    /\ fetch.pc = "request"
    /\ \E o \in RequestOutcomes :
        LET made == Append(fetch.attempts, o)
        IN IF o.kind = "raised"
           THEN fetch' = [fetch EXCEPT !.attempts = made, !.pc = "sleep",
                                       !.last_err = Some([kind |-> "raised", status |-> 0,
                                                          error |-> o.error])]
           ELSE IF Success(o.status) \/ PermanentFailure(o.status)
           THEN fetch' = [fetch EXCEPT !.attempts = made, !.pc = "returned",
                                       !.returned = Some(o)]
           ELSE fetch' = [fetch EXCEPT !.attempts = made, !.pc = "sleep",
                                       !.last_err = Some(HttpError(o.status))]
    /\ UNCHANGED <<ckpt, inv, issued, chat_state, call>>

\* time.sleep at line 77, then the next attempt of range(1, MAX_RETRIES + 2),
\* or line 80 when the range is used up
FetchSleep ==
    /\ fetch.pc = "sleep"
    /\ fetch' = IF fetch.attempt < MAX_RETRIES + 1
                THEN [fetch EXCEPT !.pc = "request", !.attempt = @ + 1]
                ELSE [fetch EXCEPT !.pc = "raised",
                                   !.raised = IF fetch.last_err # None THEN fetch.last_err
                                              ELSE Some([kind |-> "RuntimeError", status |-> 0,
                                                         error |-> "none"])]
    /\ UNCHANGED <<ckpt, inv, issued, chat_state, call>>

\* the caller has the response or the exception and goes on to its next URL
FetchOver ==
    /\ fetch.pc \in {"returned", "raised"}
    /\ fetch' = FetchIdle
    /\ UNCHANGED <<ckpt, inv, issued, chat_state, call>>

FetchNext == FetchCall \/ FetchRequest \/ FetchSleep \/ FetchOver

\* the loop is sequential code: a request ends (it has a timeout) and a sleep
\* ends
FetchSpec ==
    Init /\ [][FetchNext]_vars /\ WF_vars(FetchRequest) /\ WF_vars(FetchSleep)

(* ============================== claims ================================= *)
\* errors a node raises for a reason outside the pipeline's own code: a
\* precondition its caller broke, a collaborator that failed, a missing file
ExternalErrors == {"ValueError", "UpstreamError", "FileNotFoundError"}

\* an invocation that has run to its end, successfully or not
Ended(v) == v.pc \in {END, "error"}

\* the messages a channel map holds, and whether it holds any
HasMessages(channels) == "messages" \in DOMAIN channels

CallIn == Val(call.input)
CallEnv == Val(call.env)
CallResult == Val(call.result)

\* C1: every invocation that ends, other than on a broken precondition or a
\* failed collaborator, has run Reformulator, Retriever, Generator in that
\* order, each once, and ends at END after the Generator.
C1_NodesRunInOrder ==
    \A i \in Slots :
        (Ended(inv[i]) /\ inv[i].err \notin ExternalErrors)
            => /\ inv[i].pc = END
               /\ inv[i].started = <<"reformulator", "retriever", "chatbot">>

\* C2: an invocation with a non-empty question on a thread without history,
\* whose collaborators did not fail, completes with a non-empty answer, a
\* non-empty context and exactly two messages (user, assistant).
C2_FirstTurnCompletes ==
    \A i \in Slots :
        (Ended(inv[i]) /\ inv[i].fresh /\ inv[i].asked # << >>
            /\ inv[i].err \notin ExternalErrors)
            => /\ inv[i].pc = END
               /\ "answer" \in DOMAIN inv[i].channels
               /\ Truthy(inv[i].channels["answer"])
               /\ "context" \in DOMAIN inv[i].channels
               /\ Truthy(inv[i].channels["context"])
               /\ HasMessages(inv[i].channels)
               /\ Len(inv[i].channels["messages"]) = 2
               /\ inv[i].channels["messages"][1].role = "user"
               /\ inv[i].channels["messages"][2].role = "assistant"

\* C3: the Generator, called on a state with a question and a context and
\* message history M, with the prompt file found and the gateway answering,
\* returns a state whose answer is the cleaned model text and whose messages
\* are M followed by the user message (the question) and the assistant message
\* (the cleaned answer).
C3_GeneratorAppendsTwo ==
    (call.node = "chatbot" /\ CallIn.question # << >> /\ Truthy(CallIn.context)
        /\ CallEnv.prompt_found /\ CallEnv.llm.ok)
        => /\ CallResult.status = "ok"
           /\ Val(CallResult.out).answer = Some(CleanThink(CallEnv.llm.content))
           /\ HasAttr(Val(CallResult.out), "messages")
           /\ Val(CallResult.out)["messages"] =
                call.messages \o <<HumanMessage(CallIn.question),
                                   AIMessage(CleanThink(CallEnv.llm.content))>>

\* C4: once a turn on a thread has ended (other than on a broken precondition
\* or a failed collaborator), the thread's persisted messages are a non-empty
\* sequence of user / assistant pairs in order: two entries per turn.
C4_MessagesGrowByPairs ==
    \A i \in Slots :
        (Ended(inv[i]) /\ inv[i].err \notin ExternalErrors)
            => LET persisted == ckpt[Val(inv[i].thread)]
               IN /\ HasMessages(persisted)
                  /\ Len(persisted["messages"]) >= 2
                  /\ Len(persisted["messages"]) % 2 = 0
                  /\ \A n \in DOMAIN persisted["messages"] :
                        persisted["messages"][n].role =
                            IF n % 2 = 1 THEN "user" ELSE "assistant"

\* the fields a caller's submitted state writes on top of the checkpoint
InputFields(caller) ==
    IF caller = "session" THEN {"question", "context", "metadata"}
    ELSE {"question", "metadata"}

\* C5: thread isolation.  A step changes the checkpoint of a thread only when
\* it is a step of an invocation on that very thread, which then holds what was
\* written; every other thread's checkpoint is left as it was.  What an
\* invocation starts from, beyond the fields its caller submitted, is what its
\* own thread's checkpoint held.
C5_ThreadIsolation ==
    [][/\ \A t \in ThreadIds :
            ckpt'[t] # ckpt[t]
                => \E i \in Slots : /\ inv'[i].thread = Some(t)
                                    /\ inv'[i] # inv[i]
                                    /\ inv'[i].channels = ckpt'[t]
       /\ \A i \in Slots :
            (inv[i].pc = "idle" /\ inv'[i].pc \in Nodes)
                => \A f \in DOMAIN inv'[i].channels \ InputFields(inv'[i].caller) :
                        /\ f \in DOMAIN ckpt[Val(inv'[i].thread)]
                        /\ inv'[i].channels[f] = ckpt[Val(inv'[i].thread)][f]
      ]_vars

\* two invocations in flight on distinct threads with the same question, each
\* with its own checkpoint written
C5_Witness ==
    \E i, j \in Slots :
        /\ i # j
        /\ inv[i].pc \in Nodes /\ inv[j].pc \in Nodes
        /\ inv[i].thread # inv[j].thread
        /\ inv[i].asked = <<"w">> /\ inv[j].asked = <<"w">>
        /\ ckpt[Val(inv[i].thread)] # NoChannels
        /\ ckpt[Val(inv[j].thread)] # NoChannels

\* C6: the Generator called on a state whose question is empty or whose
\* context is absent or empty raises the precondition error before the gateway
\* is called, and returns no state (no message appended, no answer set).
C6_GeneratorPrecondition ==
    (call.node = "chatbot"
        /\ (CallIn.question = << >> \/ CallIn.context = None \/ CallIn.context = Some(<< >>)))
        => /\ CallResult.status = "ValueError"
           /\ CallResult.llm_calls = 0
           /\ CallResult.out = None

\* the Generator was called on a state with a question and no context, and
\* raised
C6_Witness ==
    /\ call.node = "chatbot"
    /\ CallIn.question # << >>
    /\ CallIn.context = None
    /\ CallResult.status = "ValueError"

\* C7: the Retriever called on a state whose question is empty raises the
\* precondition error before any index query; a failing index query surfaces
\* as a different error.
C7_RetrieverPrecondition ==
    /\ (call.node = "retriever" /\ CallIn.question = << >>)
        => /\ CallResult.status = "ValueError"
           /\ CallResult.search_calls = 0
    /\ (call.node = "retriever" /\ CallIn.question # << >> /\ ~CallEnv.search.ok)
        => /\ CallResult.status = "UpstreamError"
           /\ CallResult.search_calls = 1

\* the Retriever was called on an empty question while the index was up, and
\* raised without querying it
C7_Witness ==
    /\ call.node = "retriever"
    /\ CallIn.question = << >>
    /\ CallEnv.search.ok
    /\ CallResult.status = "ValueError"
    /\ CallResult.search_calls = 0

\* C8: when the gateway fails or its cleaned text is empty, the Reformulator
\* raises the upstream-fault error, and it never returns a state whose
\* question is empty.
C8_ReformulatorRejectsEmpty ==
    /\ (call.node = "reformulator"
            /\ (~CallEnv.llm.ok \/ CleanThink(CallEnv.llm.content) = << >>))
        => CallResult.status = "UpstreamError"
    /\ (call.node = "reformulator" /\ CallResult.status = "ok")
        => Val(CallResult.out).question # << >>

\* C9: the Retriever, called with a question while the index answers, returns
\* a state with the messages and the answer of its input state.
C9_RetrieverKeepsMessagesAnswer ==
    (call.node = "retriever" /\ CallIn.question # << >> /\ CallEnv.search.ok)
        => /\ CallResult.status = "ok"
           /\ Val(CallResult.out).answer = CallIn.answer
           /\ HasAttr(Val(CallResult.out), "messages")
           /\ Val(CallResult.out)["messages"] = call.messages

\* C10: the Reformulator, called while the gateway answers, returns a state
\* whose question is the cleaned rewrite and whose context, answer,
\* source_docs, messages and metadata are those of its input state.
C10_ReformulatorChangesOnlyQuestion ==
    (call.node = "reformulator" /\ CallEnv.llm.ok)
        => /\ CallResult.status = "ok"
           /\ Val(CallResult.out).question = CleanThink(CallEnv.llm.content)
           /\ Val(CallResult.out).context = CallIn.context
           /\ Val(CallResult.out).answer = CallIn.answer
           /\ Val(CallResult.out).source_docs = CallIn.source_docs
           /\ Val(CallResult.out).metadata = CallIn.metadata
           /\ HasAttr(Val(CallResult.out), "messages")
           /\ Val(CallResult.out)["messages"] = call.messages

\* a direct call of the Generator that meets its preconditions, with the
\* prompt file found and the gateway answering
GeneratorCallHealthy ==
    /\ call.node = "chatbot"
    /\ CallIn.question # << >>
    /\ CallIn.context # None /\ CallIn.context # Some(<< >>)
    /\ CallEnv.prompt_found
    /\ CallEnv.llm.ok

\* C11: the Generator, called on a valid state in a healthy environment,
\* returns a state whose context and source_docs are those it received; the
\* stored context carries no "Previous answer" text.
C11_GeneratorKeepsContext ==
    GeneratorCallHealthy
        => /\ CallResult.status = "ok"
           /\ Val(CallResult.out).context = CallIn.context
           /\ Val(CallResult.out).source_docs = CallIn.source_docs
           /\ \A n \in DOMAIN Val(Val(CallResult.out).context) :
                Val(Val(CallResult.out).context)[n] # "Previous answer:"

\* C12: the Retriever, called with a question while the index answers with a
\* ranking, returns a state whose source_docs is that ranking (at most K
\* passages, in rank order) and whose context is their contents joined in the
\* same order by the double newline.
C12_RetrieverStoresRanking ==
    (call.node = "retriever" /\ CallIn.question # << >> /\ CallEnv.search.ok)
        => /\ CallResult.status = "ok"
           /\ Len(CallEnv.search.docs) <= K
           /\ Val(CallResult.out).source_docs = Some(CallEnv.search.docs)
           /\ Val(CallResult.out).context = Some(Join(PageContents(CallEnv.search.docs)))

\* a field that holds a value other than None
Present(channels, f) == f \in DOMAIN channels /\ channels[f] # None

\* C13: at every node boundary of every invocation, context and source_docs
\* are both present or both absent.
C13_ContextWithDocs ==
    \A i \in Slots :
        inv[i].pc \in Nodes \cup {END}
            => (Present(inv[i].channels, "context")
                    <=> Present(inv[i].channels, "source_docs"))

\* no reasoning-trace block, an opening marker followed later by a closing one
NoCompleteBlock(text) ==
    ~ \E m, n \in DOMAIN text : m < n /\ text[m] = Open /\ text[n] = Close

\* C16: whatever the gateway replies, the Generator stores as the answer the
\* reply without any complete reasoning-trace block and without surrounding
\* whitespace; for the reply <think>w</think>w the stored answer is exactly w.
C16_StoredAnswerStripped ==
    GeneratorCallHealthy
        => /\ CallResult.status = "ok"
           /\ LET stored == Val(Val(CallResult.out).answer)
              IN  /\ NoCompleteBlock(stored)
                  /\ (stored = << >> \/ (stored[1] # Space /\ stored[Len(stored)] # Space))
                  /\ CallEnv.llm.content = <<Open, "w", Close, "w">> => stored = <<"w">>

\* a reply with a reasoning-trace marker but no complete block
Unbalanced(text) ==
    /\ \E n \in DOMAIN text : text[n] \in {Open, Close}
    /\ NoCompleteBlock(text)

\* C17: a reply with unbalanced markers does not fail the turn: the Generator
\* raises nothing, stores the trimmed reply as the answer and appends the user
\* message and the assistant message.
C17_UnbalancedReplyStored ==
    (GeneratorCallHealthy /\ Unbalanced(CallEnv.llm.content))
        => /\ CallResult.status = "ok"
           /\ Val(CallResult.out).answer = Some(Strip(CallEnv.llm.content))
           /\ HasAttr(Val(CallResult.out), "messages")

\* C18: every invocation that ends in an error is reported to its caller
\* together with the original question and the thread_id.
C18_ErrorCarriesQuestionAndThread ==
    \A i \in Slots :
        (inv[i].pc = "done" /\ inv[i].resp.code = 500)
            => {"question", "thread_id"} \subseteq DOMAIN Val(inv[i].resp.body)

\* the step by which the API answers the invocation of worker i
ApiAnswers(i) ==
    /\ inv[i].caller = "api"
    /\ Ended(inv[i])
    /\ inv'[i].pc = "done"

\* the step by which worker i starts an invocation of the graph
Begins(i) == inv[i].pc = "idle" /\ inv'[i].pc \in Nodes

\* C19: an API invocation runs on the thread_id of the request, or on a
\* generated one that names no existing thread, and the response to it
\* returns that thread_id.
C19_ThreadIdReturned ==
    [][\A i \in Slots :
        /\ (Begins(i) /\ Val(inv'[i].thread) \in FreshIds)
                => /\ Val(inv'[i].thread) \notin issued
                   /\ ckpt[CheckpointKey(Val(inv'[i].thread))] = NoChannels
        /\ ApiAnswers(i)
                => /\ "thread_id" \in DOMAIN Val(inv'[i].resp.body)
                   /\ Val(inv'[i].resp.body)["thread_id"] = Val(inv[i].thread)]_vars

\* C20: an invocation on a thread that has a checkpoint runs on the messages
\* persisted there, with the new question on top; an invocation on a thread
\* without one starts from the empty state.
C20_ResumeKeepsMessages ==
    [][\A i \in Slots :
        Begins(i) =>
            LET loaded == ckpt[CheckpointKey(Val(inv'[i].thread))]
            IN  /\ inv'[i].channels["question"] = inv'[i].asked
                /\ loaded = NoChannels
                        => DOMAIN inv'[i].channels \subseteq InputFields(inv'[i].caller)
                /\ loaded # NoChannels
                        => /\ HasMessages(loaded)
                           /\ HasMessages(inv'[i].channels)
                           /\ inv'[i].channels["messages"] = loaded["messages"]]_vars

\* C21: an invocation that ends, other than on a broken precondition or a
\* failed collaborator, ends after the Generator with its final state stored
\* under its thread_id: the checkpoint of the thread is the state handed back.
C21_PersistedEqualsReturned ==
    \A i \in Slots :
        (Ended(inv[i]) /\ inv[i].err \notin ExternalErrors
            /\ \A j \in Slots \ {i} : inv[j].thread # inv[i].thread)
            => /\ inv[i].pc = END
               /\ inv[i].started # << >>
               /\ inv[i].started[Len(inv[i].started)] = "chatbot"
               /\ ckpt[CheckpointKey(Val(inv[i].thread))] = inv[i].channels

\* the messages a channel map holds, none when it has no such channel
MessagesOf(channels) ==
    IF HasMessages(channels) THEN channels["messages"] ELSE << >>

\* C22: an invocation that fails inside the Reformulator or the Retriever
\* leaves the persisted messages of its thread as they were, and the retry of
\* the invocation (a later invocation on the same thread, with the
\* collaborators answering) completes and appends its user / assistant pair.
C22_RetryAfterEarlyFailure ==
    \A i \in Slots :
        Ended(inv[i]) =>
            LET persisted == ckpt[CheckpointKey(Val(inv[i].thread))]
            IN  /\ (inv[i].pc = "error" /\ inv[i].started # << >>
                        /\ inv[i].started[Len(inv[i].started)] \in {"reformulator", "retriever"}
                        /\ \A j \in Slots \ {i} : inv[j].thread # inv[i].thread)
                    => MessagesOf(persisted) = MessagesOf(inv[i].channels)
                /\ (~inv[i].fresh /\ inv[i].err \notin ExternalErrors)
                    => /\ inv[i].pc = END
                       /\ Len(MessagesOf(inv[i].channels)) >= 2
                       /\ LET n == Len(MessagesOf(inv[i].channels))
                          IN  /\ MessagesOf(inv[i].channels)[n - 1].role = "user"
                              /\ MessagesOf(inv[i].channels)[n].role = "assistant"

\* C23: when two invocations on the same thread overlap and both have ended
\* (neither on a broken precondition or a failed collaborator), both have
\* completed and the one checkpoint the thread has is the final state of one
\* of the two.
C23_LastWriteWins ==
    \A i, j \in Slots :
        (i # j /\ Ended(inv[i]) /\ Ended(inv[j]) /\ inv[i].thread = inv[j].thread
            /\ inv[i].err \notin ExternalErrors /\ inv[j].err \notin ExternalErrors)
            => /\ inv[i].pc = END /\ inv[j].pc = END
               /\ ckpt[CheckpointKey(Val(inv[i].thread))]
                    \in {inv[i].channels, inv[j].channels}

\* C24: the Generator, called on a valid state in a healthy environment, sends
\* the model the context followed by "Previous answer: " and the answer when
\* the state carries a non-empty answer, and the context alone when it does
\* not.
C24_PreviousAnswerInPrompt ==
    GeneratorCallHealthy
        => /\ CallResult.llm_calls = 1
           /\ CallResult.prompt_context # None
           /\ Val(CallResult.prompt_context) =
                IF CallIn.answer = None \/ CallIn.answer = Some(<< >>)
                THEN Val(CallIn.context)
                ELSE Val(CallIn.context) \o <<Sep, "Previous answer:">> \o Val(CallIn.answer)

\* C25: the Retriever, called with a question while the index lookup fails,
\* lets the failure through as its own: it has searched exactly once, called
\* nothing else, and returns no state, so no answer is set and no message is
\* appended.
C25_SearchFailureIsFatal ==
    (call.node = "retriever" /\ CallIn.question # << >> /\ ~CallEnv.search.ok)
        => /\ CallResult.status = "UpstreamError"
           /\ CallResult.search_calls = 1
           /\ CallResult.llm_calls = 0
           /\ CallResult.out = None

\* the Retriever was called with a question while the lookup failed, and
\* raised after its one search
C25_Witness ==
    /\ call.node = "retriever"
    /\ CallIn.question # << >>
    /\ ~CallEnv.search.ok
    /\ CallResult.status = "UpstreamError"
    /\ CallResult.search_calls = 1

\* C27: a state constructed with messages exposes them: every state a node
\* is run on has the attribute messages, and no invocation ends on a missing
\* attribute.
C27_StateCarriesMessages ==
    \A i \in Slots :
        /\ inv[i].pc \in Nodes => HasAttr(NodeInput(inv[i].channels), "messages")
        /\ inv[i].err # "AttributeError"

\* the step by which the Reformulator of invocation i returns or raises
ReformulatorFinishes(i) ==
    /\ inv[i].pc = "reformulator"
    /\ inv[i].phase = "running"
    /\ inv'[i].pc # "reformulator"

\* C28: when the Reformulator has run with the gateway answering, the
\* question that goes on to the Retriever, and the one persisted, is the
\* gateway's cleaned rewrite.
C28_RewriteReplacesQuestion ==
    [][\A i \in Slots :
        (ReformulatorFinishes(i) /\ inv'[i].err \notin ExternalErrors)
            => /\ inv'[i].pc = "retriever"
               /\ \E reply \in PipelineReplies :
                    /\ inv'[i].channels["question"] = CleanThink(reply)
                    /\ ckpt'[CheckpointKey(Val(inv[i].thread))]["question"]
                            = CleanThink(reply)]_vars

\* C29: the Retriever, called with a question while the index returns no
\* passage, returns a state with the empty context and the empty source_docs;
\* the Generator, called on a state with the empty context, raises its
\* precondition error without calling the gateway.
C29_ZeroPassages ==
    /\ (call.node = "retriever" /\ CallIn.question # << >>
            /\ CallEnv.search.ok /\ CallEnv.search.docs = << >>)
        => /\ CallResult.status = "ok"
           /\ Val(CallResult.out).context = Some(<< >>)
           /\ Val(CallResult.out).source_docs = Some(<< >>)
    /\ (call.node = "chatbot" /\ CallIn.question # << >> /\ CallIn.context = Some(<< >>))
        => /\ CallResult.status = "ValueError"
           /\ CallResult.llm_calls = 0
           /\ CallResult.out = None

\* an attempt that ends fetch with a response: status 2xx, 403 or 404
FinalAttempt(o) ==
    /\ o.kind = "response"
    /\ (200 <= o.status /\ o.status < 300) \/ o.status = 403 \/ o.status = 404

\* the error a failed attempt leaves
ErrorOfAttempt(o) ==
    IF o.kind = "raised" THEN [kind |-> "raised", status |-> 0, error |-> o.error]
    ELSE [kind |-> "HTTP", status |-> o.status, error |-> "none"]

FetchWithinRetries ==
    LET n == Len(fetch.attempts)
    IN  /\ MAX_RETRIES + 1 = 3
        /\ n <= MAX_RETRIES + 1
        /\ \A k \in 1..(n - 1) : ~FinalAttempt(fetch.attempts[k])
        /\ fetch.pc = "request" => fetch.attempt = n + 1
        /\ fetch.pc = "returned"
                => /\ n >= 1
                   /\ FinalAttempt(fetch.attempts[n])
                   /\ fetch.returned = Some(fetch.attempts[n])
        /\ fetch.pc \in {"sleep", "raised"}
                => /\ n >= 1
                   /\ ~FinalAttempt(fetch.attempts[n])
        /\ fetch.pc = "raised"
                => /\ n = MAX_RETRIES + 1
                   /\ fetch.raised = Some(ErrorOfAttempt(fetch.attempts[n]))

====
